---- MODULE Spec2Model ----
(***************************************************************************)
(* The `init` command of src/src/main.rs as a state machine: source        *)
(* discovery, the three skip-unless-forced file syncs, the workflow        *)
(* directories, .gitignore reconciliation, the pre-commit hook, AGENT.md,  *)
(* the validation pass and the exit status.                                *)
(*                                                                         *)
(* Strings are sequences of one-character strings, so that extension(),    *)
(* trim(), to_lowercase(), starts_with(), lines() and format!() are        *)
(* computed and not assumed.  Every filesystem call the code guards with   *)
(* `?` or `if let Err` may fail: an action draws the call's outcome, and   *)
(* the number of failures in one behaviour is capped by MaxFaults.         *)
(* The source tree (under the home directory) and the working repository   *)
(* are taken to be disjoint directories.                                   *)
(***************************************************************************)
EXTENDS Integers, Sequences, FiniteSets, TLC

\* ------------------------------------------------------------------ bounds
MaxRuleFiles == 2
MaxTemplateFiles == 1
MaxFaults == 1
MaxLines == 2
MaxCalls == 2

\* ----------------------------------------------------------------- strings
Letters == <<"a", "b", "c", "d">>
Str_mdc == <<"m", "d", "c">>
Str_md == <<"m", "d">>
Str_txt == <<"t", "x", "t">>
Str_updated == <<" ", "(", "u", "p", "d", "a", "t", "e", "d", ")">>
Str_pre_commit_hook ==
    <<"p", "r", "e", "-", "c", "o", "m", "m", "i", "t", "-", "h", "o", "o", "k">>
Str_validate_workflow_state_py ==
    <<"v", "a", "l", "i", "d", "a", "t", "e", "-", "w", "o", "r", "k", "f", "l", "o", "w",
      "-", "s", "t", "a", "t", "e", ".", "p", "y">>
Str_pre_work_hook == <<"p", "r", "e", "-", "w", "o", "r", "k", "-", "h", "o", "o", "k">>
Str_other_sh == <<"o", ".", "s", "h">>

\* A file name <stem>.<ext>
FileName(stem, ext) == stem \o <<".">> \o ext

\* Path::extension(): the part after the last '.', None when the name has no
\* '.' or only a leading one.  None is the empty record-free value <<"/">>,
\* which no extension equals (a '/' cannot occur in a file name).
NoExtension == <<"/">>
LastDot(s) ==
    IF \E i \in 1..Len(s) : s[i] = "."
    THEN CHOOSE i \in 1..Len(s) : s[i] = "." /\ \A j \in (i + 1)..Len(s) : s[j] # "."
    ELSE 0
extension(s) ==
    LET d == LastDot(s) IN IF d <= 1 THEN NoExtension ELSE SubSeq(s, d + 1, Len(s))

\* format!("{} (updated)", file_name)
Updated(file_name) == file_name \o Str_updated

StartsWith(s, p) == Len(s) >= Len(p) /\ SubSeq(s, 1, Len(p)) = p

\* --------------------------------------------------------- file contents
\* What a file holds: where its bytes come from, and its executable bit
\* (fs::copy copies the permission bits with the bytes).
Absent == [from |-> "absent", name |-> <<>>, exec |-> FALSE]
OldFile(n) == [from |-> "old", name |-> n, exec |-> FALSE]
PartialFile(n) == [from |-> "partial", name |-> n, exec |-> FALSE]
SrcFile(base, n, x) == [from |-> base, name |-> n, exec |-> x]

\* ------------------------------------------------------------- the names
RuleNames ==
    {FileName(<<Letters[i]>>, Str_mdc) : i \in 1..MaxRuleFiles}
        \cup {FileName(<<"n">>, Str_txt), <<".">> \o Str_mdc}
TemplateNames ==
    {FileName(<<Letters[i]>>, Str_md) : i \in 1..MaxTemplateFiles}
        \cup {FileName(<<"r">>, Str_mdc)}
scripts_to_copy ==
    <<Str_pre_commit_hook, Str_validate_workflow_state_py, Str_pre_work_hook>>
ScriptNames == {scripts_to_copy[i] : i \in 1..Len(scripts_to_copy)} \cup {Str_other_sh}

\* A directory of the working repository: whether it exists and what each
\* name of the universe holds in it (Absent: no such file).
NoDir(names) == [exists |-> FALSE, files |-> [n \in names |-> Absent]]
EmptyDir(names) == [exists |-> TRUE, files |-> [n \in names |-> Absent]]
PathExists(dir, n) == dir.exists /\ dir.files[n] # Absent

\* A directory of the source tree: whether it exists and the names in it.
NoSrcDir == [exists |-> FALSE, names |-> {}]
SrcDir(ns) == [exists |-> TRUE, names |-> ns]

\* -------------------------------------------------------------- InitReport
NewReport ==
    [copied_rules |-> <<>>, skipped_rules |-> <<>>,
     copied_templates |-> <<>>, skipped_templates |-> <<>>,
     created_dirs |-> <<>>,
     copied_scripts |-> <<>>, skipped_scripts |-> <<>>,
     errors |-> <<>>, warnings |-> <<>>,
     agent_created |-> FALSE,
     gitignore_action |-> "None", hook_action |-> "None", source_used |-> "None"]

\* ------------------------------------------------------ the home directory
\* ~/.flowmates/config.json: absent, unreadable, not JSON, JSON without a
\* string repo_path, or naming a repo_path ("ok").
CfgStates == {"absent", "unreadable", "unparseable", "nofield", "ok"}

\* A path under one of the two source bases.
NoPath == [base |-> "None", sub |-> "None"]
SrcPath(base, sub) == [base |-> base, sub |-> sub]

\* The directory a source path names in home h.
SrcLookup(h, p) ==
    IF p.base = "flowmates"
    THEN CASE p.sub = "rules" -> h.repo.rules
           [] p.sub = "issues/shared/templates" -> h.repo.tp
           [] p.sub = "docs/issues/templates" -> h.repo.tf
           [] p.sub = "scripts" -> h.repo.scripts
           [] OTHER -> NoSrcDir
    ELSE IF p.base = "cursor"
    THEN CASE p.sub = "rules" -> h.cursor.rules
           [] p.sub = "issues/shared/templates" -> h.cursor.tp
           [] p.sub = "docs/issues/templates" -> h.cursor.tf
           [] OTHER -> NoSrcDir
    ELSE NoSrcDir

\* The bytes of file n of the source directory p.
SrcContent(h, p, n) ==
    SrcFile(p.base, n, p.sub = "scripts" /\ n = Str_pre_commit_hook /\ h.repo.hookExec)

NoSourceInfo ==
    [some |-> FALSE, base_path |-> "None", rules_path |-> NoPath,
     templates_path |-> NoPath, scripts_path |-> NoPath, is_flowmates |-> FALSE]

\* The calls of discovery that can fail unseen: fs::read_dir(&rules_dir) of
\* line 303 is made only for a repo_path that exists and has a rules
\* directory.  (read_to_string and from_str failing are the config states
\* "unreadable" and "unparseable".)
DiscoverIo(h) ==
    IF h.cfg = "ok" /\ h.repo.exists /\ h.repo.rules.exists
    THEN {"ok", "readdir_err"} ELSE {"ok"}

\* io = "readdir_err": read_dir returns Err, the `if let Ok` of line 303 is
\* not taken and the function falls to `false`.
validate_flowmates_repo(repo, io) ==
    IF ~repo.exists THEN FALSE
    ELSE IF ~repo.rules.exists THEN FALSE
    ELSE IF io = "readdir_err" THEN FALSE
    ELSE \E n \in repo.rules.names : extension(n) = Str_mdc

\* The templates directory of a base: issues/shared/templates, else
\* docs/issues/templates, else None.
TemplatesPath(base, tp, tf) ==
    IF tp.exists THEN SrcPath(base, "issues/shared/templates")
    ELSE IF tf.exists THEN SrcPath(base, "docs/issues/templates")
    ELSE NoPath

\* DiscoverCursor without the `cursor_rules.exists()` test of line 270.
Mutant_DiscoverCursor_unchecked(h, r) ==
    [src |-> [some |-> TRUE, base_path |-> "cursor",
              rules_path |-> SrcPath("cursor", "rules"),
              templates_path |-> TemplatesPath("cursor", h.cursor.tp, h.cursor.tf),
              scripts_path |-> NoPath, is_flowmates |-> FALSE],
     report |-> [r EXCEPT !.source_used = "cursor"]]

\* The ~/.cursor/ fallback of discover_source_location.
DiscoverCursor(h, r) ==
    IF h.cursor.rules.exists
    THEN [src |-> [some |-> TRUE, base_path |-> "cursor",
                   rules_path |-> SrcPath("cursor", "rules"),
                   templates_path |-> TemplatesPath("cursor", h.cursor.tp, h.cursor.tf),
                   scripts_path |-> NoPath, is_flowmates |-> FALSE],
          report |-> [r EXCEPT !.source_used = "cursor"]]
    ELSE [src |-> NoSourceInfo, report |-> r]

DiscoverFlowmates(h, r) ==
    [src |-> [some |-> TRUE, base_path |-> "flowmates",
              rules_path |-> SrcPath("flowmates", "rules"),
              templates_path |-> TemplatesPath("flowmates", h.repo.tp, h.repo.tf),
              scripts_path |-> IF h.repo.scripts.exists
                               THEN SrcPath("flowmates", "scripts") ELSE NoPath,
              is_flowmates |-> TRUE],
     report |-> [r EXCEPT !.source_used = "flowmates"]]

\* discover_source_location with the ~/.cursor/ fallback tried first.
Mutant_discover_source_location_cursor_first(h, r, io) ==
    IF h.cursor.rules.exists THEN DiscoverCursor(h, r)
    ELSE IF h.cfg = "ok" /\ validate_flowmates_repo(h.repo, io)
    THEN DiscoverFlowmates(h, r)
    ELSE [src |-> NoSourceInfo, report |-> r]

discover_source_location(h, r, io) ==
    IF h.cfg # "absent"
    THEN IF h.cfg = "ok"
         THEN IF validate_flowmates_repo(h.repo, io)
              THEN DiscoverFlowmates(h, r)
              ELSE DiscoverCursor(h,
                     [r EXCEPT !.warnings = Append(@, "Flowmates repository path invalid")])
         ELSE DiscoverCursor(h, r)
    ELSE DiscoverCursor(h,
           [r EXCEPT !.warnings = Append(@, "Flowmates repository not configured")])


\* ------------------------------------------------------------ copy_rules
\* fs::create_dir_all(dest)?; fs::read_dir(source)?  (the same three lines
\* open copy_rules and copy_templates).
OpenSync(dest, names, srcdir, io) ==
    IF io = "mkdir_err" THEN [dest |-> dest, entries |-> {}, err |-> TRUE]
    ELSE LET d == IF dest.exists THEN dest ELSE EmptyDir(names)
         IN IF io = "readdir_err" \/ ~srcdir.exists
            THEN [dest |-> d, entries |-> {}, err |-> TRUE]
            ELSE [dest |-> d, entries |-> srcdir.names, err |-> FALSE]

\* What a failed fs::copy leaves at the destination: nothing new (the source
\* could not be opened, the destination could not be created) or a created
\* or truncated file with part of the bytes.
AfterFailedCopy(dest, n, io) ==
    IF io = "copy_partial" THEN [dest EXCEPT !.files[n] = PartialFile(n)] ELSE dest

\* copy_rules_entry with the `dest_path.exists() &&` of line 330 left out of
\* the test: nothing is ever skipped for being there.
Mutant_copy_rules_entry_no_exists_check(dest, path, content, force, r, io) ==
    IF io = "entry_err" THEN [dest |-> dest, report |-> r, err |-> TRUE]
    ELSE IF extension(path) # Str_mdc THEN [dest |-> dest, report |-> r, err |-> FALSE]
    ELSE IF FALSE /\ ~force
         THEN [dest |-> dest,
               report |-> [r EXCEPT !.skipped_rules = Append(@, path)], err |-> FALSE]
         ELSE IF io \in {"copy_err", "copy_partial"}
              THEN [dest |-> AfterFailedCopy(dest, path, io), report |-> r, err |-> TRUE]
              ELSE [dest |-> [dest EXCEPT !.files[path] = content],
                    report |-> [r EXCEPT !.copied_rules =
                                  Append(@, IF PathExists(dest, path)
                                            THEN Updated(path) ELSE path)],
                    err |-> FALSE]

\* copy_rules_entry with the name pushed to copied_rules before fs::copy is
\* tried, so that a failed copy is recorded too.
Mutant_copy_rules_entry_records_first(dest, path, content, force, r, io) ==
    IF io = "entry_err" THEN [dest |-> dest, report |-> r, err |-> TRUE]
    ELSE IF extension(path) # Str_mdc THEN [dest |-> dest, report |-> r, err |-> FALSE]
    ELSE IF PathExists(dest, path) /\ ~force
         THEN [dest |-> dest,
               report |-> [r EXCEPT !.skipped_rules = Append(@, path)], err |-> FALSE]
         ELSE LET r1 == [r EXCEPT !.copied_rules =
                           Append(@, IF PathExists(dest, path)
                                     THEN Updated(path) ELSE path)]
              IN IF io \in {"copy_err", "copy_partial"}
                 THEN [dest |-> AfterFailedCopy(dest, path, io), report |-> r1,
                       err |-> TRUE]
                 ELSE [dest |-> [dest EXCEPT !.files[path] = content], report |-> r1,
                       err |-> FALSE]

\* One iteration of copy_rules' loop on the directory entry `path`, whose
\* bytes are `content`.
copy_rules_entry(dest, path, content, force, r, io) ==
    IF io = "entry_err" THEN [dest |-> dest, report |-> r, err |-> TRUE]
    ELSE IF extension(path) # Str_mdc THEN [dest |-> dest, report |-> r, err |-> FALSE]
    ELSE IF PathExists(dest, path) /\ ~force
         THEN [dest |-> dest,
               report |-> [r EXCEPT !.skipped_rules = Append(@, path)], err |-> FALSE]
         ELSE IF io \in {"copy_err", "copy_partial"}
              THEN [dest |-> AfterFailedCopy(dest, path, io), report |-> r, err |-> TRUE]
              ELSE [dest |-> [dest EXCEPT !.files[path] = content],
                    report |-> [r EXCEPT !.copied_rules =
                                  Append(@, IF PathExists(dest, path)
                                            THEN Updated(path) ELSE path)],
                    err |-> FALSE]

\* -------------------------------------------------------- copy_templates
\* copy_templates_entry with `existed` read after fs::copy, when the file is
\* always there.
Mutant_copy_templates_entry_existed_late(dest, path, content, force, r, io) ==
    IF io = "entry_err" THEN [dest |-> dest, report |-> r, err |-> TRUE]
    ELSE IF extension(path) # Str_md THEN [dest |-> dest, report |-> r, err |-> FALSE]
    ELSE IF PathExists(dest, path) /\ ~force
         THEN [dest |-> dest,
               report |-> [r EXCEPT !.skipped_templates = Append(@, path)], err |-> FALSE]
         ELSE IF io \in {"copy_err", "copy_partial"}
              THEN [dest |-> AfterFailedCopy(dest, path, io), report |-> r, err |-> TRUE]
              ELSE [dest |-> [dest EXCEPT !.files[path] = content],
                    report |-> [r EXCEPT !.copied_templates = Append(@, Updated(path))],
                    err |-> FALSE]

copy_templates_entry(dest, path, content, force, r, io) ==
    IF io = "entry_err" THEN [dest |-> dest, report |-> r, err |-> TRUE]
    ELSE IF extension(path) # Str_md THEN [dest |-> dest, report |-> r, err |-> FALSE]
    ELSE IF PathExists(dest, path) /\ ~force
         THEN [dest |-> dest,
               report |-> [r EXCEPT !.skipped_templates = Append(@, path)], err |-> FALSE]
         ELSE IF io \in {"copy_err", "copy_partial"}
              THEN [dest |-> AfterFailedCopy(dest, path, io), report |-> r, err |-> TRUE]
              ELSE [dest |-> [dest EXCEPT !.files[path] = content],
                    report |-> [r EXCEPT !.copied_templates =
                                  Append(@, IF PathExists(dest, path)
                                            THEN Updated(path) ELSE path)],
                    err |-> FALSE]

\* ---------------------------------------------------------- copy_scripts
\* fs::create_dir_all("scripts")?
OpenScripts(dest, io) ==
    IF io = "mkdir_err" THEN [dest |-> dest, err |-> TRUE]
    ELSE [dest |-> IF dest.exists THEN dest ELSE EmptyDir(ScriptNames), err |-> FALSE]

\* copy_scripts_entry without the "(updated)" branch of lines 460-463.
Mutant_copy_scripts_entry_plain_name(dest, srcdir, script_name, content, force, r, io) ==
    IF ~(srcdir.exists /\ script_name \in srcdir.names)
    THEN [dest |-> dest, report |-> r, err |-> FALSE]
    ELSE IF PathExists(dest, script_name) /\ ~force
         THEN [dest |-> dest,
               report |-> [r EXCEPT !.skipped_scripts = Append(@, script_name)],
               err |-> FALSE]
         ELSE IF io \in {"copy_err", "copy_partial"}
              THEN [dest |-> AfterFailedCopy(dest, script_name, io), report |-> r,
                    err |-> TRUE]
              ELSE [dest |-> [dest EXCEPT !.files[script_name] = content],
                    report |-> [r EXCEPT !.copied_scripts = Append(@, script_name)],
                    err |-> FALSE]

\* One iteration of copy_scripts' loop on script_name; srcdir is the source
\* scripts directory.
copy_scripts_entry(dest, srcdir, script_name, content, force, r, io) ==
    IF ~(srcdir.exists /\ script_name \in srcdir.names)
    THEN [dest |-> dest, report |-> r, err |-> FALSE]
    ELSE IF PathExists(dest, script_name) /\ ~force
         THEN [dest |-> dest,
               report |-> [r EXCEPT !.skipped_scripts = Append(@, script_name)],
               err |-> FALSE]
         ELSE IF io \in {"copy_err", "copy_partial"}
              THEN [dest |-> AfterFailedCopy(dest, script_name, io), report |-> r,
                    err |-> TRUE]
              ELSE [dest |-> [dest EXCEPT !.files[script_name] = content],
                    report |-> [r EXCEPT !.copied_scripts =
                                  Append(@, IF PathExists(dest, script_name)
                                            THEN Updated(script_name) ELSE script_name)],
                    err |-> FALSE]

\* Whether an iteration on `path` calls fs::copy (only then can a copy fail).
Copies(dest, path, ext, force) ==
    extension(path) = ext /\ ~(PathExists(dest, path) /\ ~force)
CopiesScript(dest, srcdir, script_name, force) ==
    /\ srcdir.exists /\ script_name \in srcdir.names
    /\ ~(PathExists(dest, script_name) /\ ~force)

\* ----------------------------------------- create_issue_workflow_structure
StageDirs == <<"proposal", "todo", "in_progress", "done">>
\* The five directories in the order the code creates them; the fifth is
\* issues/shared/templates, the destination of copy_templates.
WorkflowDirs == StageDirs \o <<"issues/shared/templates">>

\* wd: the stage directories that exist; tdir: issues/shared/templates;
\* failAt: the index of the directory whose creation fails (0: none).
RECURSIVE CreateDirsFrom(_, _, _, _, _)
CreateDirsFrom(i, wd, tdir, r, failAt) ==
    IF i > Len(WorkflowDirs) THEN [wd |-> wd, tdir |-> tdir, report |-> r, err |-> FALSE]
    ELSE LET present == IF i <= Len(StageDirs) THEN StageDirs[i] \in wd ELSE tdir.exists
         IN IF present THEN CreateDirsFrom(i + 1, wd, tdir, r, failAt)
            ELSE IF failAt = i THEN [wd |-> wd, tdir |-> tdir, report |-> r, err |-> TRUE]
            ELSE CreateDirsFrom(i + 1,
                     IF i <= Len(StageDirs) THEN wd \cup {StageDirs[i]} ELSE wd,
                     IF i <= Len(StageDirs) THEN tdir ELSE EmptyDir(TemplateNames),
                     [r EXCEPT !.created_dirs = Append(@, WorkflowDirs[i])], failAt)

create_issue_workflow_structure(wd, tdir, r, failAt) == CreateDirsFrom(1, wd, tdir, r, failAt)


\* ------------------------------------------------ ensure_cursor_in_gitignore
NL == "\n"
Str_header ==
    <<"#", " ", "C", "u", "r", "s", "o", "r", " ", "a", "g", "e", "n", "t", " ",
      "s", "t", "a", "t", "e", " ", "a", "n", "d", " ", "c", "a", "c", "h", "e">>
Str_cursor == <<".", "c", "u", "r", "s", "o", "r">>
Str_cursor_slash == Str_cursor \o <<"/">>

Whitespace == {" ", "\t", "\r", NL}

\* str::trim()
RECURSIVE TrimStart(_)
TrimStart(s) ==
    IF s # <<>> /\ Head(s) \in Whitespace THEN TrimStart(Tail(s)) ELSE s
RECURSIVE TrimEnd(_)
TrimEnd(s) ==
    IF s # <<>> /\ s[Len(s)] \in Whitespace THEN TrimEnd(SubSeq(s, 1, Len(s) - 1)) ELSE s
trim(s) == TrimEnd(TrimStart(s))

\* char::to_ascii_lowercase on the letters the model's lines use
LowerChar(c) ==
    CASE c = "C" -> "c" [] c = "U" -> "u" [] c = "R" -> "r"
      [] c = "S" -> "s" [] c = "O" -> "o" [] OTHER -> c
to_lowercase(s) == [i \in 1..Len(s) |-> LowerChar(s[i])]
eq_ignore_ascii_case(a, b) == to_lowercase(a) = to_lowercase(b)

\* str::lines(): split at '\n', a final line need not end with one, and a
\* trailing '\r' of a line is dropped.
StripCR(l) == IF l # <<>> /\ l[Len(l)] = "\r" THEN SubSeq(l, 1, Len(l) - 1) ELSE l
FirstNL(s) ==
    IF \E i \in 1..Len(s) : s[i] = NL
    THEN CHOOSE i \in 1..Len(s) : s[i] = NL /\ \A j \in 1..(i - 1) : s[j] # NL
    ELSE 0
RECURSIVE lines(_)
lines(s) ==
    IF s = <<>> THEN <<>>
    ELSE LET i == FirstNL(s)
         IN IF i = 0 THEN <<StripCR(s)>>
            ELSE <<StripCR(SubSeq(s, 1, i - 1))>> \o lines(SubSeq(s, i + 1, Len(s)))

\* str::contains, for the variant of is_cursor_entry below.
Contains(s, p) == \E i \in 1..(Len(s) - Len(p) + 1) : SubSeq(s, i, i + Len(p) - 1) = p

\* is_cursor_entry with contains(".cursor") for starts_with(".cursor").
Mutant_is_cursor_entry_contains(line) ==
    LET trimmed == trim(line)
    IN IF trimmed = <<>> \/ StartsWith(trimmed, <<"#">>) THEN FALSE
       ELSE \/ eq_ignore_ascii_case(trimmed, Str_cursor)
            \/ eq_ignore_ascii_case(trimmed, Str_cursor_slash)
            \/ Contains(to_lowercase(trimmed), Str_cursor)

\* The closure of `any` at lines 492-502: whether one line is a .cursor entry.
is_cursor_entry(line) ==
    LET trimmed == trim(line)
    IN IF trimmed = <<>> \/ StartsWith(trimmed, <<"#">>) THEN FALSE
       ELSE \/ eq_ignore_ascii_case(trimmed, Str_cursor)
            \/ eq_ignore_ascii_case(trimmed, Str_cursor_slash)
            \/ StartsWith(to_lowercase(trimmed), Str_cursor)

\* has_cursor_entry with Iterator::all for Iterator::any.
Mutant_has_cursor_entry_all(content) ==
    LET ls == lines(content) IN \A i \in 1..Len(ls) : is_cursor_entry(ls[i])

has_cursor_entry(content) ==
    LET ls == lines(content) IN \E i \in 1..Len(ls) : is_cursor_entry(ls[i])

\* .gitignore: whether it exists and its bytes.  In what the function returns,
\* `wrote` says whether it opened the file for writing.
NoGitignore == [exists |-> FALSE, content |-> <<>>]
Gitignore(c) == [exists |-> TRUE, content |-> c]

\* The outcomes of the filesystem calls ensure_cursor_in_gitignore makes on gi.
GitignoreIo(gi) ==
    IF ~gi.exists THEN {"ok", "create_err", "write1_err", "write2_err"}
    ELSE IF has_cursor_entry(gi.content) THEN {"ok", "read_err"}
    ELSE {"ok", "read_err", "open_err", "write1_err", "write2_err"}

\* The bytes two writeln! calls append, the second or both of which may fail.
Written(first, io) ==
    IF io = "write1_err" THEN <<>>
    ELSE IF io = "write2_err" THEN first \o <<NL>>
    ELSE first \o <<NL>> \o Str_cursor_slash \o <<NL>>

\* ensure_cursor_in_gitignore without the "\n" that opens the text appended at
\* line 512.
Mutant_ensure_cursor_in_gitignore_no_newline(gi, r, io) ==
    IF ~gi.exists
    THEN IF io = "create_err"
         THEN [gi |-> gi, report |-> r, err |-> TRUE, wrote |-> FALSE]
         ELSE IF io \in {"write1_err", "write2_err"}
              THEN [gi |-> Gitignore(Written(Str_header, io)), report |-> r,
                    err |-> TRUE, wrote |-> TRUE]
              ELSE [gi |-> Gitignore(Written(Str_header, io)),
                    report |-> [r EXCEPT !.gitignore_action = "created"],
                    err |-> FALSE, wrote |-> TRUE]
    ELSE IF io = "read_err" THEN [gi |-> gi, report |-> r, err |-> TRUE, wrote |-> FALSE]
    ELSE IF has_cursor_entry(gi.content)
         THEN [gi |-> gi, report |-> [r EXCEPT !.gitignore_action = "skipped"],
               err |-> FALSE, wrote |-> FALSE]
         ELSE IF io = "open_err"
              THEN [gi |-> gi, report |-> r, err |-> TRUE, wrote |-> FALSE]
              ELSE IF io \in {"write1_err", "write2_err"}
                   THEN [gi |-> Gitignore(gi.content \o Written(Str_header, io)),
                         report |-> r, err |-> TRUE, wrote |-> TRUE]
                   ELSE [gi |-> Gitignore(gi.content \o Written(Str_header, io)),
                         report |-> [r EXCEPT !.gitignore_action = "added"],
                         err |-> FALSE, wrote |-> TRUE]

ensure_cursor_in_gitignore(gi, r, io) ==
    IF ~gi.exists
    THEN IF io = "create_err"
         THEN [gi |-> gi, report |-> r, err |-> TRUE, wrote |-> FALSE]
         ELSE IF io \in {"write1_err", "write2_err"}
              THEN [gi |-> Gitignore(Written(Str_header, io)), report |-> r,
                    err |-> TRUE, wrote |-> TRUE]
              ELSE [gi |-> Gitignore(Written(Str_header, io)),
                    report |-> [r EXCEPT !.gitignore_action = "created"],
                    err |-> FALSE, wrote |-> TRUE]
    ELSE IF io = "read_err" THEN [gi |-> gi, report |-> r, err |-> TRUE, wrote |-> FALSE]
    ELSE IF has_cursor_entry(gi.content)
         THEN [gi |-> gi, report |-> [r EXCEPT !.gitignore_action = "skipped"],
               err |-> FALSE, wrote |-> FALSE]
         ELSE IF io = "open_err"
              THEN [gi |-> gi, report |-> r, err |-> TRUE, wrote |-> FALSE]
              ELSE IF io \in {"write1_err", "write2_err"}
                   THEN [gi |-> Gitignore(gi.content \o Written(<<NL>> \o Str_header, io)),
                         report |-> r, err |-> TRUE, wrote |-> TRUE]
                   ELSE [gi |-> Gitignore(gi.content \o Written(<<NL>> \o Str_header, io)),
                         report |-> [r EXCEPT !.gitignore_action = "added"],
                         err |-> FALSE, wrote |-> TRUE]

\* ------------------------------------------------------- install_git_hooks
\* sdir: the repository's scripts directory (holding the hook template);
\* hooks_dir: whether .git/hooks exists; hk: .git/hooks/pre-commit.
HookIo(force, sdir, hooks_dir, hk) ==
    IF PathExists(sdir, Str_pre_commit_hook) /\ hooks_dir /\ ~(hk # Absent /\ ~force)
    THEN {"ok", "copy_err", "copy_partial", "chmod_err"}
    ELSE {"ok"}

\* install_git_hooks with the two early returns in the other order.
Mutant_install_git_hooks_git_first(force, sdir, hooks_dir, hk, r, io) ==
    IF ~hooks_dir
    THEN [hook |-> hk, report |-> [r EXCEPT !.hook_action = "not_git"]]
    ELSE IF ~PathExists(sdir, Str_pre_commit_hook)
    THEN [hook |-> hk, report |-> [r EXCEPT !.hook_action = "not_found"]]
    ELSE LET hook_existed == hk # Absent
         IN IF hook_existed /\ ~force
            THEN [hook |-> hk, report |-> [r EXCEPT !.hook_action = "skipped"]]
            ELSE IF io \in {"copy_err", "copy_partial"}
            THEN [hook |-> IF io = "copy_partial" THEN PartialFile(<<>>) ELSE hk,
                  report |-> [r EXCEPT !.errors = Append(@, "Failed to copy git hook")]]
            ELSE LET copied == sdir.files[Str_pre_commit_hook]
                     r1 == IF io = "chmod_err"
                           THEN [r EXCEPT !.warnings =
                                   Append(@, "Failed to make hook executable")]
                           ELSE r
                 IN [hook |-> IF io = "chmod_err" THEN copied
                              ELSE [copied EXCEPT !.exec = TRUE],
                     report |-> [r1 EXCEPT !.hook_action =
                                   IF hook_existed THEN "updated" ELSE "installed"]]

\* install_git_hooks with hook_existed read after the copy, when the hook is
\* always there.
Mutant_install_git_hooks_existed_late(force, sdir, hooks_dir, hk, r, io) ==
    IF ~PathExists(sdir, Str_pre_commit_hook)
    THEN [hook |-> hk, report |-> [r EXCEPT !.hook_action = "not_found"]]
    ELSE IF ~hooks_dir
    THEN [hook |-> hk, report |-> [r EXCEPT !.hook_action = "not_git"]]
    ELSE IF hk # Absent /\ ~force
         THEN [hook |-> hk, report |-> [r EXCEPT !.hook_action = "skipped"]]
         ELSE IF io \in {"copy_err", "copy_partial"}
         THEN [hook |-> IF io = "copy_partial" THEN PartialFile(<<>>) ELSE hk,
               report |-> [r EXCEPT !.errors = Append(@, "Failed to copy git hook")]]
         ELSE LET copied == sdir.files[Str_pre_commit_hook]
                  r1 == IF io = "chmod_err"
                        THEN [r EXCEPT !.warnings =
                                Append(@, "Failed to make hook executable")]
                        ELSE r
              IN [hook |-> IF io = "chmod_err" THEN copied
                           ELSE [copied EXCEPT !.exec = TRUE],
                  report |-> [r1 EXCEPT !.hook_action = "updated"]]

install_git_hooks(force, sdir, hooks_dir, hk, r, io) ==
    IF ~PathExists(sdir, Str_pre_commit_hook)
    THEN [hook |-> hk, report |-> [r EXCEPT !.hook_action = "not_found"]]
    ELSE IF ~hooks_dir
    THEN [hook |-> hk, report |-> [r EXCEPT !.hook_action = "not_git"]]
    ELSE LET hook_existed == hk # Absent
         IN IF hook_existed /\ ~force
            THEN [hook |-> hk, report |-> [r EXCEPT !.hook_action = "skipped"]]
            ELSE IF io \in {"copy_err", "copy_partial"}
            THEN [hook |-> IF io = "copy_partial" THEN PartialFile(<<>>) ELSE hk,
                  report |-> [r EXCEPT !.errors = Append(@, "Failed to copy git hook")]]
            ELSE LET copied == sdir.files[Str_pre_commit_hook]
                     r1 == IF io = "chmod_err"
                           THEN [r EXCEPT !.warnings =
                                   Append(@, "Failed to make hook executable")]
                           ELSE r
                 IN [hook |-> IF io = "chmod_err" THEN copied
                              ELSE [copied EXCEPT !.exec = TRUE],
                     report |-> [r1 EXCEPT !.hook_action =
                                   IF hook_existed THEN "updated" ELSE "installed"]]

\* --------------------------------------------------------- create_agent_md
AgentFile == [from |-> "agent_template", name |-> <<>>, exec |-> FALSE]

create_agent_md(agent, force, r, io) ==
    IF agent # Absent /\ ~force THEN [agent |-> agent, report |-> r, err |-> FALSE]
    ELSE IF io \in {"read_err", "write_err"}
         THEN [agent |-> agent, report |-> r, err |-> TRUE]
         ELSE [agent |-> AgentFile, report |-> [r EXCEPT !.agent_created = TRUE],
               err |-> FALSE]

\* ----------------------------------------------------------- validate_setup
RECURSIVE PushAll(_, _)
PushAll(q, msgs) == IF msgs = <<>> THEN q ELSE PushAll(Append(q, Head(msgs)), Tail(msgs))

validate_setup(rdir, wd, tdir, r) ==
    LET r1 == IF ~rdir.exists
              THEN [r EXCEPT !.errors = Append(@, "Rules directory not found")]
              ELSE IF \A n \in DOMAIN rdir.files :
                         rdir.files[n] = Absent \/ extension(n) # Str_mdc
                   THEN [r EXCEPT !.warnings = Append(@, "No .mdc rule files found")]
                   ELSE r
        missing == SelectSeq(WorkflowDirs,
                     LAMBDA d : IF d = "issues/shared/templates" THEN ~tdir.exists
                                ELSE d \notin wd)
        r2 == [r1 EXCEPT !.errors =
                 PushAll(@, [i \in 1..Len(missing) |-> "Required directory missing"])]
    IN IF tdir.exists /\ \A n \in DOMAIN tdir.files :
                            tdir.files[n] = Absent \/ extension(n) # Str_md
       THEN [r2 EXCEPT !.warnings = Append(@, "No template files found")]
       ELSE r2


\* =================================================================== state
VARIABLES
    home,          \* the home directory: config.json, the flowmates repo, ~/.cursor
    flags,         \* the command line: force, skip_agent, with_agent, skip_hooks
    pc,            \* the step init_command is at
    exit,          \* "running", "zero" or "nonzero"
    fatal,         \* why main returned Err ("None" while it has not)
    source,        \* the Option<SourceInfo> discovery returned
    report,        \* the InitReport
    rulesDir,      \* .cursor/rules/
    templatesDir,  \* issues/shared/templates/
    scriptsDir,    \* scripts/
    wdirs,         \* the issues/<project>/<stage> directories that exist
    gitignore,     \* .gitignore
    hooksDir,      \* whether .git/hooks exists
    hook,          \* .git/hooks/pre-commit
    agent,         \* AGENT.md
    entries,       \* copy_rules / copy_templates: the entries read_dir has yet to yield
    idx,           \* copy_scripts: the index into scripts_to_copy
    faults,        \* the failed filesystem calls so far
    results,       \* what each sync step returned: "None", "Ok" or "Err"
    ops,           \* every fs::copy call of the syncs: <<step, name, outcome>>
    pre,           \* the working repository as the run found it
    hist           \* the calls made so far, when one function is called repeatedly

vars ==
    <<home, flags, pc, exit, fatal, source, report, rulesDir, templatesDir, scriptsDir,
      wdirs, gitignore, hooksDir, hook, agent, entries, idx, faults, results, ops, pre,
      hist>>

\* The working repository's files and directories.
Repo ==
    [rulesDir |-> rulesDir, templatesDir |-> templatesDir, scriptsDir |-> scriptsDir,
     wdirs |-> wdirs, gitignore |-> gitignore, hooksDir |-> hooksDir, hook |-> hook,
     agent |-> agent]

\* A filesystem call's outcome io is a failure unless it is "ok"; a behaviour
\* holds at most MaxFaults failures.
Fault(io) ==
    /\ io # "ok" => faults < MaxFaults
    /\ faults' = IF io = "ok" THEN faults ELSE faults + 1

Fatal(why) == exit' = "nonzero" /\ fatal' = why /\ pc' = "done"

\* ------------------------------------------------------------ init_command
\* Lines 117-125: the home directory, discovery, the bail without a source.
Discover ==
    /\ pc = "discover"
    /\ \E io \in {"no_home"} \cup DiscoverIo(home) :
         /\ Fault(io)
         /\ IF io = "no_home"
            THEN Fatal("no_home") /\ UNCHANGED <<source, report>>
            ELSE LET d == discover_source_location(home, report, io)
                 IN /\ source' = d.src
                    /\ report' = d.report
                    /\ IF d.src.some
                       THEN pc' = "copy_rules" /\ UNCHANGED <<exit, fatal>>
                       ELSE Fatal("no_source")
    /\ UNCHANGED <<home, flags, rulesDir, templatesDir, scriptsDir, wdirs, gitignore,
                   hooksDir, hook, agent, entries, idx, results, ops, pre, hist>>

\* The step after copy_rules, after the workflow directories, after the templates.
AfterTemplates == IF source.scripts_path # NoPath THEN "copy_scripts" ELSE "gitignore"
AfterWorkflow == IF source.templates_path # NoPath THEN "copy_templates" ELSE AfterTemplates

\* Lines 128-135 with 314-318: copy_rules up to its loop.
CopyRulesOpen ==
    /\ pc = "copy_rules"
    /\ \E io \in {"ok", "mkdir_err", "readdir_err"} :
         /\ io = "mkdir_err" => ~rulesDir.exists
         /\ Fault(io)
         /\ LET o == OpenSync(rulesDir, RuleNames, SrcLookup(home, source.rules_path), io)
            IN /\ rulesDir' = o.dest
               /\ entries' = o.entries
               /\ IF o.err
                  THEN /\ report' = [report EXCEPT !.errors = Append(@, "Error copying rules")]
                       /\ results' = [results EXCEPT !.rules = "Err"]
                       /\ pc' = "workflow"
                  ELSE /\ pc' = "copy_rules_loop"
                       /\ UNCHANGED <<report, results>>
    /\ UNCHANGED <<home, flags, exit, fatal, source, templatesDir, scriptsDir, wdirs,
                   gitignore, hooksDir, hook, agent, idx, ops, pre, hist>>

\* The outcomes one iteration can have: the entry itself may be an Err, and
\* fs::copy may fail when the iteration calls it.
EntryIo(copies) ==
    IF copies THEN {"ok", "entry_err", "copy_err", "copy_partial"} ELSE {"ok", "entry_err"}
CopyOps(step, path, copies, io) ==
    IF copies /\ io # "entry_err" THEN ops \cup {<<step, path, io>>} ELSE ops

\* Lines 320-343: one iteration of copy_rules, on any entry not yet yielded
\* (read_dir promises no order); an Err leaves the loop and the function.
CopyRulesEntry ==
    /\ pc = "copy_rules_loop"
    /\ \E path \in entries :
         LET copies == Copies(rulesDir, path, Str_mdc, flags.force)
         IN \E io \in EntryIo(copies) :
              /\ Fault(io)
              /\ LET o == copy_rules_entry(rulesDir, path,
                              SrcContent(home, source.rules_path, path),
                              flags.force, report, io)
                 IN /\ rulesDir' = o.dest
                    /\ ops' = CopyOps("rules", path, copies, io)
                    /\ IF o.err
                       THEN /\ report' = [o.report EXCEPT
                                            !.errors = Append(@, "Error copying rules")]
                            /\ results' = [results EXCEPT !.rules = "Err"]
                            /\ entries' = {}
                            /\ pc' = "workflow"
                       ELSE /\ report' = o.report
                            /\ entries' = entries \ {path}
                            /\ UNCHANGED <<results, pc>>
    /\ UNCHANGED <<home, flags, exit, fatal, source, templatesDir, scriptsDir, wdirs,
                   gitignore, hooksDir, hook, agent, idx, pre, hist>>

\* Line 345: the loop is over, copy_rules returns Ok(()).
CopyRulesDone ==
    /\ pc = "copy_rules_loop"
    /\ entries = {}
    /\ results' = [results EXCEPT !.rules = "Ok"]
    /\ pc' = "workflow"
    /\ UNCHANGED <<home, flags, exit, fatal, source, report, rulesDir, templatesDir,
                   scriptsDir, wdirs, gitignore, hooksDir, hook, agent, entries, idx,
                   faults, ops, pre, hist>>

\* Lines 138-139: detect_project_name()? and create_issue_workflow_structure()?.
\* io is "ok", "project_err" (the current directory cannot be read) or
\* "mkdir_err", with failAt the index of the directory whose creation fails.
WorkflowAbsent(i) ==
    IF i <= Len(StageDirs) THEN StageDirs[i] \notin wdirs ELSE ~templatesDir.exists
Workflow ==
    /\ pc = "workflow"
    /\ \E io \in {"ok", "project_err", "mkdir_err"} :
       \E failAt \in IF io = "mkdir_err"
                     THEN {i \in 1..Len(WorkflowDirs) : WorkflowAbsent(i)} ELSE {0} :
         /\ Fault(io)
         /\ IF io = "project_err"
            THEN Fatal("project_name") /\ UNCHANGED <<wdirs, templatesDir, report>>
            ELSE LET o == create_issue_workflow_structure(wdirs, templatesDir, report,
                                                          failAt)
                 IN /\ wdirs' = o.wd
                    /\ templatesDir' = o.tdir
                    /\ report' = o.report
                    /\ IF o.err THEN Fatal("workflow")
                       ELSE pc' = AfterWorkflow /\ UNCHANGED <<exit, fatal>>
    /\ UNCHANGED <<home, flags, source, rulesDir, scriptsDir, gitignore, hooksDir, hook,
                   agent, entries, idx, results, ops, pre, hist>>


\* Lines 142-149 with 403-407: copy_templates up to its loop.
CopyTemplatesOpen ==
    /\ pc = "copy_templates"
    /\ \E io \in {"ok", "mkdir_err", "readdir_err"} :
         /\ io = "mkdir_err" => ~templatesDir.exists
         /\ Fault(io)
         /\ LET o == OpenSync(templatesDir, TemplateNames,
                              SrcLookup(home, source.templates_path), io)
            IN /\ templatesDir' = o.dest
               /\ entries' = o.entries
               /\ IF o.err
                  THEN /\ report' = [report EXCEPT
                                       !.warnings = Append(@, "Error copying templates")]
                       /\ results' = [results EXCEPT !.templates = "Err"]
                       /\ pc' = AfterTemplates
                  ELSE /\ pc' = "copy_templates_loop"
                       /\ UNCHANGED <<report, results>>
    /\ UNCHANGED <<home, flags, exit, fatal, source, rulesDir, scriptsDir, wdirs,
                   gitignore, hooksDir, hook, agent, idx, ops, pre, hist>>

\* Lines 409-434: one iteration of copy_templates.
CopyTemplatesEntry ==
    /\ pc = "copy_templates_loop"
    /\ \E path \in entries :
         LET copies == Copies(templatesDir, path, Str_md, flags.force)
         IN \E io \in EntryIo(copies) :
              /\ Fault(io)
              /\ LET o == copy_templates_entry(templatesDir, path,
                              SrcContent(home, source.templates_path, path),
                              flags.force, report, io)
                 IN /\ templatesDir' = o.dest
                    /\ ops' = CopyOps("templates", path, copies, io)
                    /\ IF o.err
                       THEN /\ report' = [o.report EXCEPT
                                            !.warnings = Append(@, "Error copying templates")]
                            /\ results' = [results EXCEPT !.templates = "Err"]
                            /\ entries' = {}
                            /\ pc' = AfterTemplates
                       ELSE /\ report' = o.report
                            /\ entries' = entries \ {path}
                            /\ UNCHANGED <<results, pc>>
    /\ UNCHANGED <<home, flags, exit, fatal, source, rulesDir, scriptsDir, wdirs,
                   gitignore, hooksDir, hook, agent, idx, pre, hist>>

\* Line 436: copy_templates returns Ok(()).
CopyTemplatesDone ==
    /\ pc = "copy_templates_loop"
    /\ entries = {}
    /\ results' = [results EXCEPT !.templates = "Ok"]
    /\ pc' = AfterTemplates
    /\ UNCHANGED <<home, flags, exit, fatal, source, report, rulesDir, templatesDir,
                   scriptsDir, wdirs, gitignore, hooksDir, hook, agent, entries, idx,
                   faults, ops, pre, hist>>

\* Lines 152-158 with 440-442: copy_scripts up to its loop.
CopyScriptsOpen ==
    /\ pc = "copy_scripts"
    /\ \E io \in {"ok", "mkdir_err"} :
         /\ io = "mkdir_err" => ~scriptsDir.exists
         /\ Fault(io)
         /\ LET o == OpenScripts(scriptsDir, io)
            IN /\ scriptsDir' = o.dest
               /\ IF o.err
                  THEN /\ report' = [report EXCEPT
                                       !.warnings = Append(@, "Error copying scripts")]
                       /\ results' = [results EXCEPT !.scripts = "Err"]
                       /\ pc' = "gitignore"
                       /\ UNCHANGED idx
                  ELSE /\ pc' = "copy_scripts_loop"
                       /\ idx' = 1
                       /\ UNCHANGED <<report, results>>
    /\ UNCHANGED <<home, flags, exit, fatal, source, rulesDir, templatesDir, wdirs,
                   gitignore, hooksDir, hook, agent, entries, ops, pre, hist>>

\* Lines 450-469: one iteration of copy_scripts, in the array's order.
CopyScriptsEntry ==
    /\ pc = "copy_scripts_loop"
    /\ idx <= Len(scripts_to_copy)
    /\ LET script_name == scripts_to_copy[idx]
           srcdir == SrcLookup(home, source.scripts_path)
           copies == CopiesScript(scriptsDir, srcdir, script_name, flags.force)
       IN \E io \in IF copies THEN {"ok", "copy_err", "copy_partial"} ELSE {"ok"} :
            /\ Fault(io)
            /\ LET o == copy_scripts_entry(scriptsDir, srcdir, script_name,
                            SrcContent(home, source.scripts_path, script_name),
                            flags.force, report, io)
               IN /\ scriptsDir' = o.dest
                  /\ ops' = CopyOps("scripts", script_name, copies, io)
                  /\ IF o.err
                     THEN /\ report' = [o.report EXCEPT
                                          !.warnings = Append(@, "Error copying scripts")]
                          /\ results' = [results EXCEPT !.scripts = "Err"]
                          /\ pc' = "gitignore"
                          /\ UNCHANGED idx
                     ELSE /\ report' = o.report
                          /\ idx' = idx + 1
                          /\ UNCHANGED <<results, pc>>
    /\ UNCHANGED <<home, flags, exit, fatal, source, rulesDir, templatesDir, wdirs,
                   gitignore, hooksDir, hook, agent, entries, pre, hist>>

\* Line 471: copy_scripts returns Ok(()).
CopyScriptsDone ==
    /\ pc = "copy_scripts_loop"
    /\ idx > Len(scripts_to_copy)
    /\ results' = [results EXCEPT !.scripts = "Ok"]
    /\ pc' = "gitignore"
    /\ UNCHANGED <<home, flags, exit, fatal, source, report, rulesDir, templatesDir,
                   scriptsDir, wdirs, gitignore, hooksDir, hook, agent, entries, idx,
                   faults, ops, pre, hist>>

\* Line 161: ensure_cursor_in_gitignore(&mut report)?.
EnsureGitignore ==
    /\ pc = "gitignore"
    /\ \E io \in GitignoreIo(gitignore) :
         /\ Fault(io)
         /\ LET o == ensure_cursor_in_gitignore(gitignore, report, io)
            IN /\ gitignore' = o.gi
               /\ report' = o.report
               /\ IF o.err THEN Fatal("gitignore")
                  ELSE pc' = "hooks" /\ UNCHANGED <<exit, fatal>>
    /\ UNCHANGED <<home, flags, source, rulesDir, templatesDir, scriptsDir, wdirs,
                   hooksDir, hook, agent, entries, idx, results, ops, pre, hist>>

\* Lines 164-168: install the hook unless --skip-hooks.
InstallHooks ==
    /\ pc = "hooks"
    /\ IF ~flags.skip_hooks
       THEN \E io \in HookIo(flags.force, scriptsDir, hooksDir, hook) :
              /\ Fault(io)
              /\ LET o == install_git_hooks(flags.force, scriptsDir, hooksDir, hook,
                                            report, io)
                 IN hook' = o.hook /\ report' = o.report
       ELSE /\ report' = [report EXCEPT !.hook_action = "skipped"]
            /\ UNCHANGED <<hook, faults>>
    /\ pc' = "agent"
    /\ UNCHANGED <<home, flags, exit, fatal, source, rulesDir, templatesDir, scriptsDir,
                   wdirs, gitignore, hooksDir, agent, entries, idx, results, ops, pre,
                   hist>>

\* Lines 171-193: AGENT.md.
AgentTemplateExists ==
    IF source.is_flowmates THEN home.repo.agentTpl ELSE home.cursor.agentTpl
AgentIo ==
    IF /\ ~flags.skip_agent
       /\ flags.with_agent \/ agent = Absent
       /\ AgentTemplateExists
       /\ ~(agent # Absent /\ ~(flags.force \/ flags.with_agent))
    THEN {"ok", "read_err", "write_err"} ELSE {"ok"}
CreateAgent ==
    /\ pc = "agent"
    /\ \E io \in AgentIo :
         /\ Fault(io)
         /\ IF ~flags.skip_agent /\ (flags.with_agent \/ agent = Absent)
            THEN IF AgentTemplateExists
                 THEN LET o == create_agent_md(agent, flags.force \/ flags.with_agent,
                                               report, io)
                      IN /\ agent' = o.agent
                         /\ report' = IF o.err
                                      THEN [o.report EXCEPT !.warnings =
                                              Append(@, "Error creating AGENT.md")]
                                      ELSE o.report
                 ELSE /\ report' = IF flags.with_agent
                                   THEN [report EXCEPT !.warnings =
                                           Append(@, "AGENT template not found")]
                                   ELSE report
                      /\ UNCHANGED agent
            ELSE UNCHANGED <<agent, report>>
    /\ pc' = "validate"
    /\ UNCHANGED <<home, flags, exit, fatal, source, rulesDir, templatesDir, scriptsDir,
                   wdirs, gitignore, hooksDir, hook, entries, idx, results, ops, pre,
                   hist>>

\* Finish with the exit status taken from errors and warnings alike.
Mutant_Finish_warnings_fail ==
    /\ pc = "validate"
    /\ LET r == validate_setup(rulesDir, wdirs, templatesDir, report)
       IN /\ report' = r
          /\ IF r.errors # <<>> \/ r.warnings # <<>>
             THEN exit' = "nonzero" /\ fatal' = "errors"
             ELSE exit' = "zero" /\ UNCHANGED fatal
    /\ pc' = "done"
    /\ UNCHANGED <<home, flags, source, rulesDir, templatesDir, scriptsDir, wdirs,
                   gitignore, hooksDir, hook, agent, entries, idx, faults, results, ops,
                   pre, hist>>

\* Lines 196-205: validate_setup, the summary, and the exit status.
Finish ==
    /\ pc = "validate"
    /\ LET r == validate_setup(rulesDir, wdirs, templatesDir, report)
       IN /\ report' = r
          /\ IF r.errors # <<>>
             THEN exit' = "nonzero" /\ fatal' = "errors"
             ELSE exit' = "zero" /\ UNCHANGED fatal
    /\ pc' = "done"
    /\ UNCHANGED <<home, flags, source, rulesDir, templatesDir, scriptsDir, wdirs,
                   gitignore, hooksDir, hook, agent, entries, idx, faults, results, ops,
                   pre, hist>>

Next ==
    \/ Discover
    \/ CopyRulesOpen \/ CopyRulesEntry \/ CopyRulesDone
    \/ Workflow
    \/ CopyTemplatesOpen \/ CopyTemplatesEntry \/ CopyTemplatesDone
    \/ CopyScriptsOpen \/ CopyScriptsEntry \/ CopyScriptsDone
    \/ EnsureGitignore
    \/ InstallHooks
    \/ CreateAgent
    \/ Finish


\* ============================================================ initial states
MdcNames == {n \in RuleNames : extension(n) = Str_mdc}
MdNames == {n \in TemplateNames : extension(n) = Str_md}
A_mdc == FileName(<<"a">>, Str_mdc)
A_md == FileName(<<"a">>, Str_md)

\* A directory of the working repository in which the names of `olds` are
\* files of an earlier run (or of the user).
DirWith(names, olds) ==
    [exists |-> TRUE, files |-> [n \in names |-> IF n \in olds THEN OldFile(n) ELSE Absent]]

NoRepoDir ==
    [exists |-> FALSE, rules |-> NoSrcDir, tp |-> NoSrcDir, tf |-> NoSrcDir,
     scripts |-> NoSrcDir, hookExec |-> FALSE, agentTpl |-> FALSE]
FlowRepo(rules, tp, tf, scripts, hx, at) ==
    [exists |-> TRUE, rules |-> rules, tp |-> tp, tf |-> tf, scripts |-> scripts,
     hookExec |-> hx, agentTpl |-> at]
NoCursor == [rules |-> NoSrcDir, tp |-> NoSrcDir, tf |-> NoSrcDir, agentTpl |-> FALSE]
CursorDir(rules, tp, tf, at) == [rules |-> rules, tp |-> tp, tf |-> tf, agentTpl |-> at]
Home(cfg, repo, cursor) == [cfg |-> cfg, repo |-> repo, cursor |-> cursor]

DefaultFlags ==
    [force |-> FALSE, skip_agent |-> FALSE, with_agent |-> FALSE, skip_hooks |-> FALSE]
AllFlags ==
    [force : BOOLEAN, skip_agent : BOOLEAN, with_agent : BOOLEAN, skip_hooks : BOOLEAN]

\* A git repository the tool has not been run in.
EmptyRepo ==
    [rulesDir |-> NoDir(RuleNames), templatesDir |-> NoDir(TemplateNames),
     scriptsDir |-> NoDir(ScriptNames), wdirs |-> {}, gitignore |-> NoGitignore,
     hooksDir |-> TRUE, hook |-> Absent, agent |-> Absent]

\* A home whose only source is ~/.cursor/, and one whose flowmates repo is valid.
CursorHome(rules) ==
    Home("absent", NoRepoDir, CursorDir(SrcDir(rules), NoSrcDir, NoSrcDir, TRUE))
FlowHome(tp, tf, scripts, hx) ==
    Home("ok", FlowRepo(SrcDir({A_mdc}), tp, tf, scripts, hx, TRUE), NoCursor)

\* The lines a .gitignore of the model is made of.
GitignoreLines ==
    { <<>>,
      <<"x">>,
      Str_cursor,
      Str_cursor_slash,
      <<".", "C", "U", "R", "S", "O", "R", "/">>,
      <<" ">> \o Str_cursor_slash \o <<" ">>,
      Str_cursor \o <<"r", "u", "l", "e", "s">>,
      <<"#", " ">> \o Str_cursor_slash,
      <<"x">> \o Str_cursor,
      Str_cursor_slash \o <<"\r">> }

\* The files of n lines, each ended by '\n', and those whose last line is not.
RECURSIVE FilesOfLines(_)
FilesOfLines(n) ==
    IF n = 0 THEN {<<>>}
    ELSE {c \o l \o <<NL>> : c \in FilesOfLines(n - 1), l \in GitignoreLines}
GitignoreContents(max) ==
    LET ended == UNION {FilesOfLines(n) : n \in 0..max}
    IN ended \cup {SubSeq(c, 1, Len(c) - 1) : c \in ended \ {<<>>}}
GitignoreFiles(max) == {NoGitignore} \cup {Gitignore(c) : c \in GitignoreContents(max)}

\* The (.git/hooks, .git/hooks/pre-commit) pairs: no hooks directory, an
\* empty one, one holding a hook.
HookStates == {<<FALSE, Absent>>, <<TRUE, Absent>>, <<TRUE, OldFile(<<>>)>>}

\* The runs the model starts from.  Each family varies the part of the home
\* and of the working repository one step depends on.
HomeRuns ==
    LET dirs == {NoSrcDir, SrcDir({A_md})}
        repos == {NoRepoDir,
                  FlowRepo(NoSrcDir, NoSrcDir, NoSrcDir, NoSrcDir, FALSE, FALSE),
                  FlowRepo(SrcDir({FileName(<<"n">>, Str_txt)}), NoSrcDir, NoSrcDir,
                           NoSrcDir, FALSE, FALSE)}
                   \cup {FlowRepo(SrcDir({A_mdc}), tp, tf, sc, FALSE, FALSE) :
                           tp \in dirs, tf \in dirs,
                           sc \in {NoSrcDir, SrcDir({Str_pre_commit_hook})}}
        cursors == {NoCursor, CursorDir(SrcDir({}), NoSrcDir, NoSrcDir, FALSE)}
                     \cup {CursorDir(SrcDir({A_mdc}), tp, tf, FALSE) :
                             tp \in dirs, tf \in dirs}
    IN {[home |-> Home(c, r, k), flags |-> DefaultFlags, repo |-> EmptyRepo] :
          c \in CfgStates, r \in repos, k \in cursors}

RuleRuns ==
    {[home |-> CursorHome(S), flags |-> [DefaultFlags EXCEPT !.force = f],
      repo |-> [EmptyRepo EXCEPT !.rulesDir = d]] :
        S \in SUBSET RuleNames, f \in BOOLEAN,
        d \in {NoDir(RuleNames)} \cup {DirWith(RuleNames, O) : O \in SUBSET MdcNames}}

TemplateRuns ==
    {[home |-> FlowHome(IF primary THEN SrcDir(S) ELSE NoSrcDir,
                        IF primary THEN NoSrcDir ELSE SrcDir(S), NoSrcDir, FALSE),
      flags |-> [DefaultFlags EXCEPT !.force = f],
      repo |-> [EmptyRepo EXCEPT !.templatesDir = d]] :
        S \in SUBSET TemplateNames, primary \in BOOLEAN, f \in BOOLEAN,
        d \in {NoDir(TemplateNames)} \cup {DirWith(TemplateNames, O) : O \in SUBSET MdNames}}

ScriptRuns ==
    LET three == {scripts_to_copy[i] : i \in 1..Len(scripts_to_copy)}
    IN {[home |-> FlowHome(NoSrcDir, NoSrcDir, SrcDir(S \cup {Str_other_sh}), hx),
         flags |-> [DefaultFlags EXCEPT !.force = f, !.skip_hooks = sh],
         repo |-> [EmptyRepo EXCEPT !.scriptsDir = d, !.hooksDir = hs[1], !.hook = hs[2]]] :
           S \in SUBSET three, hx \in BOOLEAN, f \in BOOLEAN, sh \in BOOLEAN,
           hs \in HookStates,
           d \in {NoDir(ScriptNames)}
                   \cup {DirWith(ScriptNames, O) : O \in {{}, {Str_pre_commit_hook}, three}}}

GitignoreRuns ==
    {[home |-> CursorHome({A_mdc}), flags |-> DefaultFlags,
      repo |-> [EmptyRepo EXCEPT !.gitignore = g]] : g \in GitignoreFiles(1)}

AgentRuns ==
    {[home |-> IF flow THEN FlowHome(NoSrcDir, NoSrcDir, NoSrcDir, FALSE)
               ELSE Home("absent", NoRepoDir,
                         CursorDir(SrcDir({A_mdc}), NoSrcDir, NoSrcDir, FALSE)),
      flags |-> fl, repo |-> [EmptyRepo EXCEPT !.agent = a]] :
        flow \in BOOLEAN, fl \in AllFlags, a \in {Absent, OldFile(<<>>)}}

Runs == HomeRuns \cup RuleRuns \cup TemplateRuns \cup ScriptRuns \cup GitignoreRuns
          \cup AgentRuns

\* The state a process starts in: `at` is its first step.
Start(run, at) ==
    /\ home = run.home
    /\ flags = run.flags
    /\ pc = at
    /\ exit = "running"
    /\ fatal = "None"
    /\ source = NoSourceInfo
    /\ report = NewReport
    /\ rulesDir = run.repo.rulesDir
    /\ templatesDir = run.repo.templatesDir
    /\ scriptsDir = run.repo.scriptsDir
    /\ wdirs = run.repo.wdirs
    /\ gitignore = run.repo.gitignore
    /\ hooksDir = run.repo.hooksDir
    /\ hook = run.repo.hook
    /\ agent = run.repo.agent
    /\ entries = {}
    /\ idx = 1
    /\ faults = 0
    /\ results = [rules |-> "None", templates |-> "None", scripts |-> "None"]
    /\ ops = {}
    /\ pre = run.repo
    /\ hist = <<>>

Init == \E run \in Runs : Start(run, "discover")

Spec == Init /\ [][Next]_vars


\* ============================== one function called again and again
\* ensure_cursor_in_gitignore, run after run on the same repository; each
\* run has a new report.
GitignoreCall ==
    /\ pc = "gitignore_calls"
    /\ Len(hist) < MaxCalls
    /\ \E io \in GitignoreIo(gitignore) :
         /\ Fault(io)
         /\ LET o == ensure_cursor_in_gitignore(gitignore, NewReport, io)
            IN /\ gitignore' = o.gi
               /\ report' = o.report
               /\ hist' = Append(hist, [before |-> gitignore, after |-> o.gi,
                                        action |-> o.report.gitignore_action,
                                        err |-> o.err, wrote |-> o.wrote])
    /\ UNCHANGED <<home, flags, pc, exit, fatal, source, rulesDir, templatesDir,
                   scriptsDir, wdirs, hooksDir, hook, agent, entries, idx, results, ops,
                   pre>>

InitGitignore ==
    \E g \in GitignoreFiles(MaxLines) :
      Start([home |-> CursorHome({A_mdc}), flags |-> DefaultFlags,
             repo |-> [EmptyRepo EXCEPT !.gitignore = g]], "gitignore_calls")

SpecGitignore == InitGitignore /\ [][GitignoreCall]_vars

\* install_git_hooks, run after run on the same repository, each run with
\* its own --force and a new report.
HookCall ==
    /\ pc = "hook_calls"
    /\ Len(hist) < MaxCalls
    /\ \E force \in BOOLEAN :
       \E io \in HookIo(force, scriptsDir, hooksDir, hook) :
         /\ Fault(io)
         /\ LET o == install_git_hooks(force, scriptsDir, hooksDir, hook, NewReport, io)
            IN /\ hook' = o.hook
               /\ report' = o.report
               /\ hist' = Append(hist, [force |-> force, io |-> io,
                                        template |-> scriptsDir.files[Str_pre_commit_hook],
                                        hooks_dir |-> hooksDir,
                                        before |-> hook, after |-> o.hook,
                                        report |-> o.report])
    /\ UNCHANGED <<home, flags, pc, exit, fatal, source, rulesDir, templatesDir,
                   scriptsDir, wdirs, gitignore, hooksDir, agent, entries, idx, results,
                   ops, pre>>

\* The scripts directory without the hook template, and with it, executable
\* or not.
HookTemplates ==
    {NoDir(ScriptNames), EmptyDir(ScriptNames),
     DirWith(ScriptNames, {Str_pre_commit_hook})}
      \cup {[EmptyDir(ScriptNames) EXCEPT !.files[Str_pre_commit_hook] =
               SrcFile("flowmates", Str_pre_commit_hook, x)] : x \in BOOLEAN}

InitHooks ==
    \E sd \in HookTemplates, hs \in HookStates :
      Start([home |-> CursorHome({A_mdc}), flags |-> DefaultFlags,
             repo |-> [EmptyRepo EXCEPT !.scriptsDir = sd, !.hooksDir = hs[1],
                                        !.hook = hs[2]]], "hook_calls")

SpecHooks == InitHooks /\ [][HookCall]_vars

\* discover_source_location, called on a home directory with a new report.
DiscoverCall ==
    /\ pc = "discover_calls"
    /\ Len(hist) < MaxCalls
    /\ \E io \in DiscoverIo(home) :
         /\ Fault(io)
         /\ LET d == discover_source_location(home, NewReport, io)
            IN /\ source' = d.src
               /\ report' = d.report
               /\ hist' = Append(hist, [io |-> io, src |-> d.src, report |-> d.report])
    /\ UNCHANGED <<home, flags, pc, exit, fatal, rulesDir, templatesDir, scriptsDir,
                   wdirs, gitignore, hooksDir, hook, agent, entries, idx, results, ops,
                   pre>>

\* The homes of HomeRuns, and those whose repository holds only a rules file
\* named `.mdc`, which has no extension.
DiscoverHomes ==
    {run.home : run \in HomeRuns}
      \cup {Home("ok",
                 FlowRepo(SrcDir({<<".">> \o Str_mdc}), NoSrcDir, NoSrcDir, NoSrcDir,
                          FALSE, FALSE),
                 k) :
               k \in {NoCursor, CursorDir(SrcDir({A_mdc}), NoSrcDir, NoSrcDir, FALSE)}}

InitDiscover ==
    \E h \in DiscoverHomes :
      Start([home |-> h, flags |-> DefaultFlags, repo |-> EmptyRepo], "discover_calls")

SpecDiscover == InitDiscover /\ [][DiscoverCall]_vars


\* =================================================================== claims
EndsWith(s, p) == Len(s) >= Len(p) /\ SubSeq(s, Len(s) - Len(p) + 1, Len(s)) = p
Count(q, x) == Cardinality({i \in 1..Len(q) : q[i] = x})
Steps == {"rules", "templates", "scripts"}

\* Per sync step: its source directory, its destination now and before the
\* run, its two lists, and the source files it is to consider.
SrcPathOf(step) ==
    CASE step = "rules" -> source.rules_path
      [] step = "templates" -> source.templates_path
      [] step = "scripts" -> source.scripts_path
DestOf(step) ==
    CASE step = "rules" -> rulesDir
      [] step = "templates" -> templatesDir
      [] step = "scripts" -> scriptsDir
PreOf(step) ==
    CASE step = "rules" -> pre.rulesDir
      [] step = "templates" -> pre.templatesDir
      [] step = "scripts" -> pre.scriptsDir
CopiedOf(step) ==
    CASE step = "rules" -> report.copied_rules
      [] step = "templates" -> report.copied_templates
      [] step = "scripts" -> report.copied_scripts
SkippedOf(step) ==
    CASE step = "rules" -> report.skipped_rules
      [] step = "templates" -> report.skipped_templates
      [] step = "scripts" -> report.skipped_scripts
PassesFilter(step, n) ==
    CASE step = "rules" -> extension(n) = Str_mdc
      [] step = "templates" -> extension(n) = Str_md
      [] step = "scripts" ->
           n \in {Str_pre_commit_hook, Str_validate_workflow_state_py, Str_pre_work_hook}
Eligible(step) ==
    {n \in SrcLookup(home, SrcPathOf(step)).names : PassesFilter(step, n)}
CopyCalled(step, n) == \E o \in ops : o[1] = step /\ o[2] = n

NoUsableSource ==
    /\ ~(/\ home.cfg = "ok"
         /\ home.repo.exists
         /\ home.repo.rules.exists
         /\ \E n \in home.repo.rules.names :
              Len(n) > Len(Str_mdc) + 1 /\ EndsWith(n, <<".">> \o Str_mdc))
    /\ ~home.cursor.rules.exists

\* C4: when the home holds no usable source, the run never gets past
\* discovery: it ends in the fatal "no source" error (or earlier, without a
\* home directory), and the working repository stays as it was found: no
\* directory, no copied file, no .gitignore, no hook, no AGENT.md, and the
\* report records none.
C4_NoSourceNoMutation ==
    NoUsableSource =>
        /\ pc \in {"discover", "done"}
        /\ pc = "done" => exit = "nonzero" /\ fatal \in {"no_source", "no_home"}
        /\ Repo = pre
        /\ ops = {}
        /\ [report EXCEPT !.warnings = <<>>] = NewReport

\* A run that ended in the "no source" error.
C4_Witness == NoUsableSource /\ pc = "done" /\ fatal = "no_source"

\* A name of a copied list without its " (updated)" annotation.
StripUpdated(s) ==
    IF EndsWith(s, Str_updated) THEN SubSeq(s, 1, Len(s) - Len(Str_updated)) ELSE s

\* C9: in every state of an init run, hence at its end, for rules, templates
\* and scripts alike: every name in the copied list (plain or "(updated)")
\* or in the skipped list is a file that exists at the destination, and no
\* name is in both lists.
C9_RecordedFilesExist ==
    \A step \in Steps :
        /\ \A i \in 1..Len(CopiedOf(step)) :
             PathExists(DestOf(step), StripUpdated(CopiedOf(step)[i]))
        /\ \A i \in 1..Len(SkippedOf(step)) :
             PathExists(DestOf(step), SkippedOf(step)[i])
        /\ \A i \in 1..Len(CopiedOf(step)) : \A j \in 1..Len(SkippedOf(step)) :
             StripUpdated(CopiedOf(step)[i]) # SkippedOf(step)[j]

\* A finished run that copied one rule file and skipped another.
C9_Witness ==
    /\ pc = "done"
    /\ exit = "zero"
    /\ report.copied_rules # <<>>
    /\ report.skipped_rules # <<>>

\* C10 as stated: once a source was found, the process exits non-zero exactly
\* when the report holds a hard error.
C10_ExitIffErrors ==
    (pc = "done" /\ source.some) => (exit = "nonzero" <=> report.errors # <<>>)

\* C10, amended: a run that found a source and went through the whole
\* sequence exits non-zero exactly when the report holds a hard error, and so
\* exits zero whatever its warnings; a run cut short by a fatal failure
\* (project name, workflow directories, .gitignore) exits non-zero whatever
\* the report holds.
C10_ExitIffErrorsOrFatal ==
    (pc = "done" /\ source.some) =>
        IF fatal \in {"project_name", "workflow", "gitignore"}
        THEN exit = "nonzero"
        ELSE /\ exit \in {"zero", "nonzero"}
             /\ exit = "nonzero" <=> report.errors # <<>>

\* A run that exits zero with two warnings and no error.
C10_Witness ==
    /\ pc = "done"
    /\ exit = "zero"
    /\ Len(report.warnings) >= 2
    /\ report.errors = <<>>


\* A line that counts as the entry: trimmed, it is not empty, is no comment
\* and, in lower case, starts with ".cursor".
EntryLine(l) ==
    LET t == trim(l)
    IN t # <<>> /\ t[1] # "#" /\ StartsWith(to_lowercase(t), Str_cursor)
MatchCount(content) ==
    LET ls == lines(content) IN Cardinality({i \in 1..Len(ls) : EntryLine(ls[i])})
\* Whether some line is, trimmed, exactly `.cursor/`.
HasCursorSlashLine(content) ==
    LET ls == lines(content) IN \E i \in 1..Len(ls) : trim(ls[i]) = Str_cursor_slash

\* C5: a run of ensure_cursor_in_gitignore that finds a .gitignore with no
\* entry line and returns Ok answers "added" and leaves exactly one entry
\* line; the run that follows it, when it returns Ok, answers "skipped",
\* does not open the file for writing, leaves its bytes as they were, and
\* the file still holds exactly one entry line.
C5_AddedThenSkipped ==
    \A i \in 1..Len(hist) :
        (hist[i].before.exists /\ MatchCount(hist[i].before.content) = 0 /\ ~hist[i].err) =>
            /\ hist[i].action = "added"
            /\ MatchCount(hist[i].after.content) = 1
            /\ (i < Len(hist) /\ ~hist[i + 1].err) =>
                 /\ hist[i + 1].before = hist[i].after
                 /\ hist[i + 1].action = "skipped"
                 /\ ~hist[i + 1].wrote
                 /\ hist[i + 1].after = hist[i + 1].before
                 /\ MatchCount(hist[i + 1].after.content) = 1

\* Two runs in a row on a .gitignore of two lines, neither of them an entry:
\* "added", then "skipped".
C5_Witness ==
    /\ Len(hist) = 2
    /\ hist[1].before.exists
    /\ Len(lines(hist[1].before.content)) = 2
    /\ MatchCount(hist[1].before.content) = 0
    /\ hist[1].action = "added"
    /\ hist[2].action = "skipped"

\* C6 as stated: after a run that returned Ok, .gitignore exists and holds
\* the line `.cursor/`.
C6_CursorSlashPresent ==
    \A i \in 1..Len(hist) :
        ~hist[i].err => hist[i].after.exists /\ HasCursorSlashLine(hist[i].after.content)

\* C6, amended: after a run that returned Ok, .gitignore exists and holds a
\* non-comment line that, trimmed and in lower case, starts with ".cursor";
\* it ends with the line `.cursor/` when the run answered "created" or
\* "added", and is byte for byte what it was when the run answered "skipped".
C6_EntryLinePresent ==
    \A i \in 1..Len(hist) :
        ~hist[i].err =>
            /\ hist[i].after.exists
            /\ MatchCount(hist[i].after.content) >= 1
            /\ hist[i].action \in {"created", "added", "skipped"}
            /\ hist[i].action \in {"created", "added"} =>
                 EndsWith(hist[i].after.content, <<NL>> \o Str_cursor_slash \o <<NL>>)
                   \/ hist[i].after.content = Str_cursor_slash \o <<NL>>
            /\ hist[i].action = "skipped" => hist[i].after = hist[i].before

\* A run that answered "skipped" on a file with no `.cursor/` line.
C6_Witness ==
    \E i \in 1..Len(hist) :
        /\ hist[i].action = "skipped"
        /\ ~HasCursorSlashLine(hist[i].after.content)

SameBytes(a, b) == a.from = b.from /\ a.name = b.name
CopyFailed(h) == h.io \in {"copy_err", "copy_partial"}

\* C7 as stated: the outcome and the hook are a function of (template
\* exists, .git/hooks exists, hook exists, force), as in the decision table.
C7_DecisionTable ==
    \A i \in 1..Len(hist) :
        LET h == hist[i]
        IN IF h.template = Absent
           THEN h.report.hook_action = "not_found" /\ h.after = h.before
           ELSE IF ~h.hooks_dir
           THEN h.report.hook_action = "not_git" /\ h.after = h.before
           ELSE IF h.before # Absent /\ ~h.force
           THEN h.report.hook_action = "skipped" /\ h.after = h.before
           ELSE /\ h.report.hook_action =
                     IF h.before # Absent THEN "updated" ELSE "installed"
                /\ SameBytes(h.after, h.template)
                /\ h.after.exec

\* C7, amended: the first three rows as stated, and they record no error and
\* no warning; in the last two rows, when fs::copy fails a hard error is
\* recorded and hook_action stays unset; when it succeeds the outcome is
\* "updated" for a hook that was there and "installed" otherwise, the hook
\* holds the template's bytes, and it is executable unless set_permissions
\* failed, in which case a warning is recorded and the mode is the template's.
C7_DecisionTableUnlessIoFails ==
    \A i \in 1..Len(hist) :
        LET h == hist[i]
            quiet == h.report.errors = <<>> /\ h.report.warnings = <<>>
        IN IF h.template = Absent
           THEN h.report.hook_action = "not_found" /\ h.after = h.before /\ quiet
           ELSE IF ~h.hooks_dir
           THEN h.report.hook_action = "not_git" /\ h.after = h.before /\ quiet
           ELSE IF h.before # Absent /\ ~h.force
           THEN h.report.hook_action = "skipped" /\ h.after = h.before /\ quiet
           ELSE IF CopyFailed(h)
           THEN h.report.hook_action = "None" /\ Len(h.report.errors) = 1
           ELSE /\ h.report.hook_action =
                     IF h.before # Absent THEN "updated" ELSE "installed"
                /\ SameBytes(h.after, h.template)
                /\ h.report.errors = <<>>
                /\ IF h.io = "chmod_err"
                   THEN Len(h.report.warnings) = 1 /\ h.after.exec = h.template.exec
                   ELSE h.report.warnings = <<>> /\ h.after.exec

\* A run that answered "installed" for a hook it could not make executable.
C7_Witness ==
    \E i \in 1..Len(hist) :
        /\ hist[i].report.hook_action = "installed"
        /\ hist[i].io = "chmod_err"
        /\ ~hist[i].after.exec

\* The first of two runs finds the template, .git/hooks and no hook.
FreshInstall(i) ==
    /\ i < Len(hist)
    /\ hist[i].template # Absent
    /\ hist[i].hooks_dir
    /\ hist[i].before = Absent

UsableRepo ==
    /\ home.cfg = "ok"
    /\ home.repo.exists
    /\ home.repo.rules.exists
    /\ \E n \in home.repo.rules.names :
         Len(n) > Len(Str_mdc) + 1 /\ EndsWith(n, <<".">> \o Str_mdc)

\* The templates path of a returned SourceInfo is the first that exists of
\* issues/shared/templates and docs/issues/templates under the base.
FirstExistingTemplates(src, base, dir) ==
    /\ dir.tp.exists => src.templates_path = SrcPath(base, "issues/shared/templates")
    /\ (~dir.tp.exists /\ dir.tf.exists) =>
         src.templates_path = SrcPath(base, "docs/issues/templates")
    /\ (~dir.tp.exists /\ ~dir.tf.exists) => src.templates_path = NoPath

\* C11: discover_source_location returns the flowmates kind whenever the
\* config file names a repository that passes validation (it exists, has a
\* rules directory that can be read and holds a .mdc file), whether or not
\* ~/.cursor/rules exists; otherwise the cursor kind exactly when
\* ~/.cursor/rules exists, with no scripts path; otherwise None.  A returned
\* SourceInfo has the first existing templates path of its base, and
\* report.source_used names the kind returned (and nothing when None).
C11_PriorityOrder ==
    \A i \in 1..Len(hist) :
        LET e == hist[i]
        IN IF UsableRepo /\ e.io # "readdir_err"
           THEN /\ e.src.some /\ e.src.is_flowmates
                /\ e.src.base_path = "flowmates"
                /\ e.src.rules_path = SrcPath("flowmates", "rules")
                /\ FirstExistingTemplates(e.src, "flowmates", home.repo)
                /\ e.report.source_used = "flowmates"
           ELSE IF home.cursor.rules.exists
           THEN /\ e.src.some /\ ~e.src.is_flowmates
                /\ e.src.base_path = "cursor"
                /\ e.src.rules_path = SrcPath("cursor", "rules")
                /\ e.src.scripts_path = NoPath
                /\ FirstExistingTemplates(e.src, "cursor", home.cursor)
                /\ e.report.source_used = "cursor"
           ELSE ~e.src.some /\ e.report.source_used = "None"

\* A call that returned the flowmates kind, with the docs/issues/templates
\* fallback, on a home where ~/.cursor/rules exists too.
C11_Witness ==
    /\ Len(hist) >= 1
    /\ UsableRepo
    /\ home.cursor.rules.exists
    /\ hist[1].src.is_flowmates
    /\ hist[1].src.templates_path = SrcPath("flowmates", "docs/issues/templates")

\* A copy of the step failed.
CopyFailedIn(step) == \E o \in ops : o[1] = step /\ o[3] # "ok"

\* C12 as stated: once a sync step is over, a failed copy in it has left a
\* hard error in the report, and every file of its source that passes the
\* filter was processed all the same: fs::copy was called on it, or its name
\* is in the skipped list.
C12_FailedCopyDoesNotAbort ==
    \A step \in Steps :
        (source.some /\ results[step] # "None" /\ CopyFailedIn(step)) =>
            /\ report.errors # <<>>
            /\ \A n \in Eligible(step) :
                 CopyCalled(step, n) \/ Count(SkippedOf(step), n) = 1

\* C13 as stated: a call of discover_source_location that does not use the
\* flowmates configuration (config.json absent, unreadable, not JSON, without
\* a string repo_path, or naming a repository that fails validation) leaves
\* one warning in the report and no error, and falls through to ~/.cursor/:
\* it returns the cursor kind when ~/.cursor/rules exists and None otherwise.
C13_WarningOnEveryFallback ==
    \A i \in 1..Len(hist) :
        LET e == hist[i]
        IN (home.cfg # "ok" \/ ~UsableRepo \/ e.io = "readdir_err") =>
             /\ Len(e.report.warnings) = 1
             /\ e.report.errors = <<>>
             /\ ~e.src.is_flowmates
             /\ e.src.some <=> home.cursor.rules.exists

\* The bytes lines 512-513 append.
AppendedText == <<NL>> \o Str_header \o <<NL>> \o Str_cursor_slash \o <<NL>>

\* Whether some line of the content is an entry line.
SomeEntryLine(content) ==
    LET ls == lines(content) IN \E i \in 1..Len(ls) : EntryLine(ls[i])

\* Whether the appended header comment comes after an empty line.
BlankLineBeforeHeader(content) ==
    content = AppendedText \/ EndsWith(content, <<NL>> \o AppendedText)

\* C14 as stated: on an existing .gitignore, a run that returns Ok answers
\* "skipped" and writes nothing exactly when some line is an entry line;
\* otherwise it answers "added", and the file is what it was followed by a
\* blank line, the header comment and the line `.cursor/`.
C14_BlankLineAppended ==
    \A i \in 1..Len(hist) :
        LET e == hist[i]
        IN (e.before.exists /\ ~e.err) =>
             IF SomeEntryLine(e.before.content)
             THEN e.action = "skipped" /\ ~e.wrote /\ e.after = e.before
             ELSE /\ e.action = "added"
                  /\ e.after.content = e.before.content \o AppendedText
                  /\ BlankLineBeforeHeader(e.after.content)

\* C14, amended: the same, except that what is appended is a newline, the
\* header comment and the line `.cursor/`: the header comes after a blank
\* line exactly when the file was empty or ended with a newline, and
\* otherwise the newline only ends the file's last line.
C14_MatchRuleAndAppend ==
    \A i \in 1..Len(hist) :
        LET e == hist[i]
            c == e.before.content
        IN (e.before.exists /\ ~e.err) =>
             IF SomeEntryLine(c)
             THEN e.action = "skipped" /\ ~e.wrote /\ e.after = e.before
             ELSE /\ e.action = "added"
                  /\ e.wrote
                  /\ e.after.content = c \o AppendedText
                  /\ BlankLineBeforeHeader(e.after.content) <=>
                       (c = <<>> \/ c[Len(c)] = NL)

\* A run that answered "added" on a file whose last line, a comment naming
\* `.cursor/`, had no newline: no blank line comes before the header.
C14_Witness ==
    \E i \in 1..Len(hist) :
        /\ hist[i].action = "added"
        /\ EndsWith(hist[i].before.content, <<"#", " ">> \o Str_cursor_slash)
        /\ ~BlankLineBeforeHeader(hist[i].after.content)


====
